---------------------------- MODULE Spec2Model ----------------------------
(***************************************************************************)
(* A model of GoAPISimulator (src/go_api_simu.py): the transit data store  *)
(* built by __init__, the stop resolver get_stop_id, the trip assembler    *)
(* get_trip_info, the delay-log sampler get_control_log and the two        *)
(* numeric utilities they use; and of the agent node Assistant.__call__    *)
(* (src/transit_talk_graph.py, src/src/agent/tweets_writer_graph.py) and   *)
(* of the tool trip_id_to_trip_od_info (src/tools.py).                     *)
(*                                                                         *)
(* Conventions.  Python's None is the string NONE where a string is        *)
(* expected and the empty tuple <<>> where a number is expected (a number  *)
(* x is then <<x>>).  A missing CSV cell (pandas NaN) is the string NAN.   *)
(* Data frames are sequences of records in row order; positions are        *)
(* 1-based here and 0-based in pandas.  A call's outcome is a record       *)
(* [kind |-> "return" | "raise", value |-> ...].                           *)
(***************************************************************************)
EXTENDS Integers, Sequences, FiniteSets, TLC

VARIABLES
    source,            \* what __init__ read and was given: the CSV tables and its arguments
    stops,             \* self.stops
    stop_time_clean,   \* self.stop_time_clean
    delay_logs_clean_df, \* self.delay_logs_clean_df
    result,            \* the last call made on the object and its outcome
    assistant,         \* one call of Assistant.__call__: its locals and position
    go_api_simulator   \* the class of the object the tools module binds to this name

vars == <<source, stops, stop_time_clean, delay_logs_clean_df, result, assistant,
          go_api_simulator>>

\* The tables the object holds after __init__.
tables == <<stops, stop_time_clean, delay_logs_clean_df>>

NONE == "None"
NAN == "nan"

Return(v) == [kind |-> "return", value |-> v]
Raise(e) == [kind |-> "raise", value |-> e]

\* ------------------------------------------------------------- bounds

MaxStops == 2          \* rows of stops.csv
MaxStopTimes == 2      \* rows of stop_times.txt
MaxTrips == 2          \* rows of trips.txt
MaxDates == 2          \* rows of calendar_dates.txt
MaxLogs == 3           \* rows of L101.csv
MaxReprompts == 3      \* re-prompts of the model within one Assistant call

\* Sequences over S of length 0..n.
SeqUpTo(S, n) == UNION {[1..k -> S] : k \in 0..n}

\* ---------------------------------------------------------- utilities

\* r = 6371.0, the Earth radius in km.
EarthRadius == 6371

\* Latitudes and longitudes are multiples of 60 degrees, where the
\* trigonometry of calculate_distance is exact in sixteenths.
Mod360(d) == d % 360

\* 2*cos(d) for d a multiple of 60 degrees.
Cos2(d) ==
    CASE Mod360(d) = 0 -> 2
      [] Mod360(d) \in {60, 300} -> 1
      [] Mod360(d) \in {120, 240} -> -1
      [] Mod360(d) = 180 -> -2

\* 4*sin(d/2)**2 = 2 - 2*cos(d).
SinHalfSq4(d) == 2 - Cos2(d)

\* Mutant of HaversineA16: cos(lat2) left out of the product.
HaversineA16_one_cos(lat1, lon1, lat2, lon2) ==
    4 * SinHalfSq4(lat2 - lat1) + 2 * Cos2(lat1) * SinHalfSq4(lon2 - lon1)

\* 16*a, for the a of calculate_distance:
\*   a = sin(dlat/2)**2 + cos(lat1)*cos(lat2)*sin(dlon/2)**2
HaversineA16(lat1, lon1, lat2, lon2) ==
    4 * SinHalfSq4(lat2 - lat1) + Cos2(lat1) * Cos2(lat2) * SinHalfSq4(lon2 - lon1)

\* 1000 * atan2(sqrt(a), sqrt(1 - a)) for a = a16/16, rounded to the
\* nearest integer (milliradians).
Atan2Milli(a16) ==
    CASE a16 = 0 -> 0
      [] a16 = 1 -> 253
      [] a16 = 2 -> 361
      [] a16 = 3 -> 448
      [] a16 = 4 -> 524
      [] a16 = 5 -> 593
      [] a16 = 6 -> 659
      [] a16 = 7 -> 723
      [] a16 = 8 -> 785
      [] a16 = 9 -> 848
      [] a16 = 10 -> 912
      [] a16 = 11 -> 978
      [] a16 = 12 -> 1047
      [] a16 = 13 -> 1123
      [] a16 = 14 -> 1209
      [] a16 = 15 -> 1318
      [] a16 = 16 -> 1571

\* calculate_distance: the Haversine distance in km (rounded down).
calculate_distance(lat1, lon1, lat2, lon2) ==
    (EarthRadius * 2 * Atan2Milli(HaversineA16(lat1, lon1, lat2, lon2))) \div 1000

\* Vectors are pairs of integers.
Dot(v1, v2) == v1[1] * v2[1] + v1[2] * v2[2]

RECURSIVE ISqrtIn(_, _, _)
\* The integer square root of n, known to lie in lo..hi.
ISqrtIn(n, lo, hi) ==
    IF lo = hi THEN lo
    ELSE LET mid == (lo + hi + 1) \div 2
         IN  IF mid * mid <= n THEN ISqrtIn(n, mid, hi) ELSE ISqrtIn(n, lo, mid - 1)

\* Scores are kept to three decimals.
SimScale == 1000

\* The Euclidean norm of v, in thousandths.
NormMilli(v) == ISqrtIn(SimScale * SimScale * Dot(v, v), 0, SimScale * (Dot(v, v) + 1))

\* sklearn's normalize: a row of norm zero is divided by 1 and stays zero.
Normalized(v) ==
    LET n == IF Dot(v, v) = 0 THEN SimScale ELSE NormMilli(v)
    IN  <<(v[1] * SimScale * SimScale) \div n, (v[2] * SimScale * SimScale) \div n>>

\* calculate_cosine_similarity: sklearn's cosine_similarity of two row
\* vectors, the dot product of the normalized rows (in thousandths).
calculate_cosine_similarity(vec1, vec2) ==
    Dot(Normalized(vec1), Normalized(vec2)) \div SimScale


\* ------------------------------------------------------- stop resolver

\* Mutant of idxmin: the last position holding the least score.
idxmin_last(scores) ==
    CHOOSE i \in 1..Len(scores) :
        /\ \A j \in 1..Len(scores) : scores[i] <= scores[j]
        /\ \A j \in (i + 1)..Len(scores) : scores[j] > scores[i]

\* Series.idxmin: the first position holding the least score.
idxmin(scores) ==
    CHOOSE i \in 1..Len(scores) :
        /\ \A j \in 1..Len(scores) : scores[i] <= scores[j]
        /\ \A j \in 1..(i - 1) : scores[j] > scores[i]

\* Mutant of idxmax: the last position holding the greatest score.
idxmax_last(scores) ==
    CHOOSE i \in 1..Len(scores) :
        /\ \A j \in 1..Len(scores) : scores[i] >= scores[j]
        /\ \A j \in (i + 1)..Len(scores) : scores[j] < scores[i]

\* Series.idxmax: the first position holding the greatest score.
idxmax(scores) ==
    CHOOSE i \in 1..Len(scores) :
        /\ \A j \in 1..Len(scores) : scores[i] >= scores[j]
        /\ \A j \in 1..(i - 1) : scores[j] < scores[i]

\* self.embedding_model.encode: the embedding model, an external
\* collaborator, as a fixed table from query text to vector.
encode(text) ==
    CASE text = "Union Station" -> <<1, 0>>
      [] text = "Oshawa GO" -> <<1, 1>>
      [] OTHER -> <<-1, 1>>

\* self.stops[self.stops.stop_name == stop_name]
StopsNamed(table, stop_name) == SelectSeq(table, LAMBDA row : row.stop_name = stop_name)

\* sim_scores of the embedding search.
SimScores(table, input_emb) ==
    [i \in 1..Len(table) |-> calculate_cosine_similarity(input_emb, table[i].embedding)]

\* dist_scores of the geo search.
DistScores(table, lat, long) ==
    [i \in 1..Len(table) |->
        calculate_distance(lat, long, table[i].stop_lat, table[i].stop_lon)]

\* Mutant of ExactNameSearch: values[-1], the last row of that name.
ExactNameSearch_last(table, stop_name) ==
    IF Len(StopsNamed(table, stop_name)) = 0
    THEN Raise("ValueError: Stop not found")
    ELSE Return(StopsNamed(table, stop_name)[Len(StopsNamed(table, stop_name))].stop_id)

\* The method=None branch: the first row of that name, and the IndexError
\* of values[0] on no row, which the except clause turns into a ValueError.
ExactNameSearch(table, stop_name) ==
    IF Len(StopsNamed(table, stop_name)) = 0
    THEN Raise("ValueError: Stop not found")
    ELSE Return(StopsNamed(table, stop_name)[1].stop_id)

\* The method='embedding_search' branch.  idxmax of an empty Series raises
\* a ValueError of its own.
EmbeddingSearch(table, stop_name) ==
    IF stop_name = NONE THEN Raise("ValueError: stop_name is required")
    ELSE IF Len(table) = 0 THEN Raise("ValueError: argmax of an empty sequence")
    ELSE Return(table[idxmax(SimScores(table, encode(stop_name)))].stop_id)

\* The method='geo_search' branch.  On an empty table idxmin raises.
GeoSearch(table, lat, long) ==
    IF lat = <<>> \/ long = <<>> THEN Raise("ValueError: lat and long are required")
    ELSE IF Len(table) = 0 THEN Raise("ValueError: argmin of an empty sequence")
    ELSE Return(table[idxmin(DistScores(table, lat[1], long[1]))].stop_id)

\* get_stop_id.  A method that is none of the three falls through the
\* if/elif chain and the function ends without a return statement.
get_stop_id(table, stop_name, lat, long, method) ==
    CASE method = NONE -> ExactNameSearch(table, stop_name)
      [] method = "embedding_search" -> EmbeddingSearch(table, stop_name)
      [] method = "geo_search" -> GeoSearch(table, lat, long)
      [] OTHER -> Return(NONE)

\* ------------------------------------------------------ trip assembler

\* f"{date}-{corridor}-{trip_id}"
FullTripId(date, corridor, trip_id) == date \o "-" \o corridor \o "-" \o trip_id

\* One row of the merge: a stop-time row with the columns of a stop row of
\* the same stop_id (the stop's name is the one column the assembler reads).
JoinedRow(st, stop) ==
    [trip_id |-> st.trip_id, stop_id |-> st.stop_id,
     stop_sequence |-> st.stop_sequence, arrival_time |-> st.arrival_time,
     departure_time |-> st.departure_time, stop_headsign |-> st.stop_headsign,
     stop_name |-> stop.stop_name]

\* The rows one stop-time row contributes to the merge: one per stop row
\* with its stop_id, in stop-table order; none when no stop has that id.
JoinedRows(st, table) ==
    LET hits == SelectSeq(table, LAMBDA stop : stop.stop_id = st.stop_id)
    IN  [i \in 1..Len(hits) |-> JoinedRow(st, hits[i])]

RECURSIVE Merge(_, _)
\* left.merge(right, on='stop_id'): pandas' inner join, which keeps the
\* order of the left rows.
Merge(left, table) ==
    IF Len(left) = 0 THEN <<>>
    ELSE JoinedRows(Head(left), table) \o Merge(Tail(left), table)

\* Mutant of TripData: the rows of every trip, the trip_id filter left out.
TripData_any_trip(clean, table, full_trip_id) == Merge(clean, table)

\* self.stop_time_clean[self.stop_time_clean.trip_id == full_trip_id].merge(self.stops, on='stop_id')
TripData(clean, table, full_trip_id) ==
    Merge(SelectSeq(clean, LAMBDA st : st.trip_id = full_trip_id), table)

SeqNumbers(trip_data) == {trip_data[i].stop_sequence : i \in 1..Len(trip_data)}

\* trip_data.stop_sequence.min()
MinSeq(trip_data) == CHOOSE m \in SeqNumbers(trip_data) : \A n \in SeqNumbers(trip_data) : m <= n

\* trip_data[trip_data.stop_sequence == trip_data.stop_sequence.min()].stop_headsign.values[0]
\* A missing headsign cell is the value NaN, which values[0] returns like any other.
Headsign(trip_data) ==
    SelectSeq(trip_data, LAMBDA row : row.stop_sequence = MinSeq(trip_data))[1].stop_headsign

RECURSIVE SortedSeq(_)
\* The numbers of S in ascending order: groupby sorts its group keys.
SortedSeq(S) ==
    IF S = {} THEN <<>>
    ELSE LET m == CHOOSE x \in S : \A y \in S : x <= y
         IN  <<m>> \o SortedSeq(S \ {m})

\* Mutant of First: the last value of the column that is not null.
First_last(group, column) ==
    LET valid == SelectSeq(group, LAMBDA row : row[column] # NAN)
    IN  IF Len(valid) = 0 THEN NAN ELSE valid[Len(valid)][column]

\* GroupBy.first() for one column of one group: the first value of the
\* column that is not null, and null when the group has none.
First(group, column) ==
    LET valid == SelectSeq(group, LAMBDA row : row[column] # NAN)
    IN  IF Len(valid) = 0 THEN NAN ELSE valid[1][column]

\* One entry of the stop_sequence list, for the group of sequence number seq.
StopEntry(trip_data, seq) ==
    LET group == SelectSeq(trip_data, LAMBDA row : row.stop_sequence = seq)
    IN  [stop_sequence |-> seq,
         stop_name |-> First(group, "stop_name"),
         arrival_time |-> First(group, "arrival_time"),
         departure_time |-> First(group, "departure_time")]

\* Mutant of StopSequence: one entry per joined row in row order, no grouping.
StopSequence_per_row(trip_data) ==
    [i \in 1..Len(trip_data) |->
        [stop_sequence |-> trip_data[i].stop_sequence,
         stop_name |-> trip_data[i].stop_name,
         arrival_time |-> trip_data[i].arrival_time,
         departure_time |-> trip_data[i].departure_time]]

\* The list built from trip_data.groupby('stop_sequence').first().iterrows().
StopSequence(trip_data) ==
    LET keys == SortedSeq(SeqNumbers(trip_data))
    IN  [i \in 1..Len(keys) |-> StopEntry(trip_data, keys[i])]

\* The dictionary get_trip_info returns.
TripInfo(trip_data, full_trip_id) ==
    [trip_id |-> full_trip_id,
     stop_headsign |-> Headsign(trip_data),
     origin |-> trip_data[1].stop_name,
     destination |-> trip_data[Len(trip_data)].stop_name,
     departure_time |-> trip_data[1].departure_time,
     arrival_time |-> trip_data[Len(trip_data)].arrival_time,
     stop_sequence |-> StopSequence(trip_data)]

\* get_trip_info.  The IndexError handler around the headsign lookup can
\* not run for a non-empty trip_data whose stop_sequence cells are numbers:
\* the rows holding the minimum are never none.
get_trip_info(clean, table, trip_id, date, corridor) ==
    LET full_trip_id == FullTripId(date, corridor, trip_id)
        trip_data == TripData(clean, table, full_trip_id)
    IN  IF Len(trip_data) = 0
        THEN Raise("ValueError: Trip ID not found")
        ELSE Return(TripInfo(trip_data, full_trip_id))

\* ---------------------------------------------------------- data store

\* str.endswith
EndsWith(s, suffix) ==
    /\ Len(s) >= Len(suffix)
    /\ SubSeq(s, Len(s) - Len(suffix) + 1, Len(s)) = suffix

\* service_ids: the calendar's service ids within [start_date, end_date].
ServiceIds(calendar_dates, start_date, end_date) ==
    {calendar_dates[i] : i \in {j \in 1..Len(calendar_dates) :
        calendar_dates[j] >= start_date /\ calendar_dates[j] <= end_date}}

\* Mutant of ValidTrips: the test on the route left out.
ValidTrips_any_route(trips, service_ids, corridor) ==
    SelectSeq(trips, LAMBDA t : t.service_id \in service_ids)

\* valid_trips
ValidTrips(trips, service_ids, corridor) ==
    SelectSeq(trips, LAMBDA t : t.service_id \in service_ids /\ EndsWith(t.route_id, corridor))

\* valid_trips.trip_id.unique()
ValidTripIds(src) ==
    LET valid == ValidTrips(src.trips,
                            ServiceIds(src.calendar_dates, src.start_date, src.end_date),
                            src.corridor)
    IN  {valid[i].trip_id : i \in 1..Len(valid)}

\* self.stop_time_clean as __init__ leaves it.
StopTimeClean(src) ==
    SelectSeq(src.stop_times, LAMBDA st : st.trip_id \in ValidTripIds(src))

RECURSIVE LeftMerge(_, _, _, _)
\* pd.merge(left, right, on=key, how='left'): every left row, in order,
\* once per right row of the same key, and once with the right columns
\* null (the record nulls) when no right row has the key.
LeftMerge(left, right, key, nulls) ==
    IF Len(left) = 0 THEN <<>>
    ELSE LET hits == SelectSeq(right, LAMBDA r : r[key] = Head(left)[key])
             rows == IF Len(hits) = 0
                     THEN <<Head(left) @@ nulls>>
                     ELSE [i \in 1..Len(hits) |-> Head(left) @@ hits[i]]
         IN  rows \o LeftMerge(Tail(left), right, key, nulls)

\* merge_data.  The source names the join keys TripId and DelayCode and
\* the columns OperationDateTime, CorridorId and DelayCode; the other
\* column of each right table stands for the rest of its columns.
merge_data(l101_df, l102_df, delay_code_info_df) ==
    LeftMerge(LeftMerge(l101_df, l102_df, "TripId", [Remarks |-> NAN]),
              delay_code_info_df, "DelayCode", [DelayDescription |-> NAN])

\* OperationDateTime.dt.date: timestamps are numbers yyyymmddhh, dates
\* numbers yyyymmdd.
DateOf(timestamp) == timestamp \div 100

\* datetime.date(2018, 3, 1) and datetime.date(2018, 3, 8)
DelayWindowStart == 20180301
DelayWindowEnd == 20180308

\* Mutant of DelayLogsFilter: the test on the delay code left out.
DelayLogsFilter_keep_null(delay_logs, corridor) ==
    SelectSeq(delay_logs, LAMBDA row :
        /\ DateOf(row.OperationDateTime) >= DelayWindowStart
        /\ DateOf(row.OperationDateTime) <= DelayWindowEnd
        /\ row.CorridorId = corridor)

\* The boolean mask of delay_logs_clean_df: the fixed dates of the code,
\* the corridor given to __init__, a delay code that is not null.
DelayLogsFilter(delay_logs, corridor) ==
    SelectSeq(delay_logs, LAMBDA row :
        /\ DateOf(row.OperationDateTime) >= DelayWindowStart
        /\ DateOf(row.OperationDateTime) <= DelayWindowEnd
        /\ row.CorridorId = corridor
        /\ row.DelayCode # NAN)

\* sort_values(by='OperationDateTime'): the rows in ascending order of
\* timestamp.  The default sort is not stable, so rows of the same
\* timestamp may come out in either order.
SortedByTime(rows) ==
    {sorted \in {[i \in 1..Len(rows) |-> rows[p[i]]] : p \in Permutations(1..Len(rows))} :
        \A i \in 1..(Len(sorted) - 1) :
            sorted[i].OperationDateTime <= sorted[i + 1].OperationDateTime}

\* The values self.delay_logs_clean_df may have as __init__ leaves it.
DelayLogsClean(src) ==
    SortedByTime(DelayLogsFilter(merge_data(src.l101, src.l102, src.delay_code_info),
                                 src.corridor))

\* No call is in progress: the caller holds the object.
Idle == [op |-> "idle", args |-> <<>>, out |-> <<>>]

\* The object after __init__ on the tables and arguments src.  __init__
\* has no raise statement: it ends normally for every filter.
Constructed(src) ==
    /\ source = src
    /\ stops = src.stops
    /\ stop_time_clean = StopTimeClean(src)
    /\ delay_logs_clean_df \in DelayLogsClean(src)
    /\ result = Idle

\* ----------------------------------------------------- delay log sampler

\* Mutant of FrameAfterSample: the sampled row is taken out of the frame.
FrameAfterSample_drop(df, sampled) ==
    IF sampled.kind = "return" THEN SelectSeq(df, LAMBDA row : row # sampled.value) ELSE df

\* What DataFrame.sample(1) leaves of the frame: sample returns a new
\* frame and the frame it is called on keeps its rows.
FrameAfterSample(df, sampled) == df

\* Mutant of get_control_log: an empty snapshot answered with an empty record.
get_control_log_default(df) ==
    IF Len(df) = 0 THEN {Return(<<>>)} ELSE {Return(df[i]) : i \in 1..Len(df)}

\* get_control_log: the outcomes it may have.  sample(1) draws one row at
\* random and raises ValueError on a frame without rows.
get_control_log(df) ==
    IF Len(df) = 0
    THEN {Raise("ValueError: cannot take a sample from an empty frame")}
    ELSE {Return(df[i]) : i \in 1..Len(df)}

\* get_next_available_trip: the fixed answer, whatever the arguments.
get_next_available_trip(o_stop_id, d_stop_id, time) ==
    Return([trip_id |-> "907", origin |-> "Oshawa GO", destination |-> "Union Station",
            departure_time |-> "07:42:00", arrival_time |-> "08:45:00"])

\* get_station_alert: the fixed notice, whatever the stop.
get_station_alert(stop_id) ==
    Return("Station Alert: Starting Monday, June 19, new traffic signals will be installed")

\* ------------------------------------------------------------ assistant

\* ("user", "Respond with a real output.")
Reprompt == <<"user", "Respond with a real output.">>

\* A message content is a string or a list of blocks; a block is a dict,
\* whose "text" entry may be absent (NONE), or a plain string.
StrContent(text) == [type |-> "str", text |-> text, blocks |-> <<>>]
ListContent(blocks) == [type |-> "list", text |-> "", blocks |-> blocks]
DictBlock(text) == [type |-> "dict", text |-> text]
StrBlock(text) == [type |-> "str", text |-> text]

\* Python's truth value of a content: a non-empty string or list.
Truthy(content) ==
    IF content.type = "str" THEN content.text # "" ELSE Len(content.blocks) > 0

\* Mutant of LoopTest: the tool calls are not looked at.
LoopTest_ignore_tool_calls(r) ==
    IF ~Truthy(r.content) THEN "reprompt"
    ELSE IF r.content.type # "list" THEN "break"
    ELSE IF r.content.blocks[1].type = "str" THEN "raise"
    ELSE IF r.content.blocks[1].text \in {NONE, ""} THEN "reprompt"
    ELSE "break"

\* The test of the while loop on a model result r:
\*   not r.tool_calls and (not r.content or
\*       isinstance(r.content, list) and not r.content[0].get("text"))
\* "reprompt" when it is true, "break" when it is false, "raise" when
\* r.content[0] is a plain string, which has no get (AttributeError).
LoopTest(r) ==
    IF Len(r.tool_calls) # 0 THEN "break"
    ELSE IF ~Truthy(r.content) THEN "reprompt"
    ELSE IF r.content.type # "list" THEN "break"
    ELSE IF r.content.blocks[1].type = "str" THEN "raise"
    ELSE IF r.content.blocks[1].text \in {NONE, ""} THEN "reprompt"
    ELSE "break"

\* No model result yet.
NoResult == [tool_calls |-> <<>>, content |-> [type |-> "none", text |-> "", blocks |-> <<>>]]

\* No Assistant call is in progress.
AssistantAtRest ==
    [pc |-> "rest", input |-> <<>>, messages |-> <<>>, invocations |-> 0, result |-> NoResult]

\* Assistant.__call__ entered with state["messages"] = input.
AssistantCalled(input) ==
    [pc |-> "loop", input |-> input, messages |-> input, invocations |-> 0,
     result |-> NoResult]

\* ---------------------------------------------------------------- tools

\* go_api_simulator = GoTrainAPI(), the binding of the tools module.
AsBuilt == "GoTrainAPI"

\* The classes the tools module imports for that binding: GoTrainAPI, and
\* GoAPISimulator of the line above it, the object the tools are written for.
Bindings == {"GoTrainAPI", "GoAPISimulator"}

\* The character of s at position i, as a string.
Char(s, i) == SubSeq(s, i, i)

\* \d of the regular expressions.
IsDigit(s, i) ==
    /\ i \in 1..Len(s)
    /\ Char(s, i) \in {"0", "1", "2", "3", "4", "5", "6", "7", "8", "9"}

\* \s+ : the characters of s from i to j are whitespace, and there is one.
IsSpaces(s, i, j) == i <= j /\ \A k \in i..j : Char(s, k) \in {" ", "\t", "\n"}

\* .+ : the characters of s from i to j are no line ends, and there is one.
IsText(s, i, j) == i <= j /\ \A k \in i..j : Char(s, k) # "\n"

\* \d{2}:\d{2} at position p of s.
IsTime(s, p) ==
    /\ IsDigit(s, p)
    /\ IsDigit(s, p + 1)
    /\ p + 2 <= Len(s)
    /\ Char(s, p + 2) = ":"
    /\ IsDigit(s, p + 3)
    /\ IsDigit(s, p + 4)

RECURSIVE DigitsEnd(_, _)
\* The last position of the run of digits of s that holds position p.
DigitsEnd(s, p) == IF IsDigit(s, p + 1) THEN DigitsEnd(s, p + 1) ELSE p

\* re.findall(r'\d+', text): the first run of digits of text is its
\* element 0; the list is empty, and [0] an IndexError, when text has no digit.
FirstDigits(text) ==
    LET starts == {p \in 1..Len(text) : IsDigit(text, p)}
    IN  IF starts = {} THEN Raise("IndexError: list index out of range")
        ELSE LET p == CHOOSE q \in starts : \A r \in starts : q <= r
             IN  Return(SubSeq(text, p, DigitsEnd(text, p)))

\* The ways r'(.+)\s+(\d{2}:\d{2})\s+-\s+(.+)\s+(\d{2}:\d{2})' matches a
\* prefix of s, each as <<a, t1, d, e, t2>>: group 1 is s[1..a], group 2
\* the time at t1, group 3 is s[d+1..e], group 4 the time at t2.
HeadsignMatches(s) ==
    LET times == {p \in 1..Len(s) : IsTime(s, p)}
        origins(t1) == {a \in 1..(t1 - 2) : IsText(s, 1, a) /\ IsSpaces(s, a + 1, t1 - 1)}
        dashes(t1) ==
            {c \in (t1 + 6)..Len(s) : Char(s, c) = "-" /\ IsSpaces(s, t1 + 5, c - 1)}
        starts(c) == {d \in (c + 1)..Len(s) : IsSpaces(s, c + 1, d)}
        ends(d, t2) ==
            {e \in (d + 1)..(t2 - 2) : IsText(s, d + 1, e) /\ IsSpaces(s, e + 1, t2 - 1)}
        tails(t1, t2) ==
            UNION {UNION {{<<d, e>> : e \in ends(d, t2)} : d \in starts(c)} : c \in dashes(t1)}
    IN  UNION {UNION {
            {<<a, t1, tail[1], tail[2], t2>> : a \in origins(t1), tail \in tails(t1, t2)} :
                t1 \in times} : t2 \in times}

\* The match re.match settles on: the quantifiers are greedy, so group 1
\* is the longest that leaves a match, then the spaces before group 3 the
\* longest, then group 3.
GreedyMatch(s) ==
    CHOOSE m \in HeadsignMatches(s) :
        \A o \in HeadsignMatches(s) :
            \/ m[1] > o[1]
            \/ m[1] = o[1] /\ m[3] > o[3]
            \/ m[1] = o[1] /\ m[3] = o[3] /\ m[4] >= o[4]

\* f"{origin} {o_time} - {destination} {d_time}" of the groups of match m.
FormatGroups(s, m) ==
    SubSeq(s, 1, m[1]) \o " " \o SubSeq(s, m[2], m[2] + 4) \o " - "
        \o SubSeq(s, m[3] + 1, m[4]) \o " " \o SubSeq(s, m[5], m[5] + 4)

\* go_api_simulator.get_trip_info(trip_id): GoTrainAPI has no method of
\* that name (AttributeError); GoAPISimulator runs get_trip_info with its
\* default date and corridor.
LookupTrip(binding, clean, table, trip_id) ==
    IF binding = "GoTrainAPI"
    THEN Raise("AttributeError: 'GoTrainAPI' object has no attribute 'get_trip_info'")
    ELSE get_trip_info(clean, table, trip_id, "20180301", "LE")

\* The try block of trip_id_to_trip_od_info.  re.match raises TypeError on
\* a headsign that is NaN, a float.
TripOdInfoBody(binding, clean, table, trip_update_text) ==
    LET trip_id == FirstDigits(trip_update_text)
        info == LookupTrip(binding, clean, table, trip_id.value)
        s_h == info.value.stop_headsign
    IN  IF trip_id.kind = "raise" THEN trip_id
        ELSE IF info.kind = "raise" THEN info
        ELSE IF s_h = NAN THEN Raise("TypeError: expected string or bytes-like object")
        ELSE IF HeadsignMatches(s_h) = {}
             THEN Return("Unable to parse trip origin-destination from headsign text.")
             ELSE Return(FormatGroups(s_h, GreedyMatch(s_h)))

RECURSIVE MessageFrom(_, _)
\* str(e): the text of exception e after its class name and ": ".
MessageFrom(e, p) ==
    IF p + 1 > Len(e) THEN ""
    ELSE IF SubSeq(e, p, p + 1) = ": " THEN SubSeq(e, p + 2, Len(e))
    ELSE MessageFrom(e, p + 1)

\* Mutant of ExceptException: a handler for ValueError only.
ExceptException_value_error_only(out) ==
    IF out.kind = "raise" /\ SubSeq(out.value, 1, 10) = "ValueError"
    THEN Return("Trip ID lookup failed: " \o MessageFrom(out.value, 1))
    ELSE out

\* except Exception as e: return f"Trip ID lookup failed: {e}".  Every
\* exception the try block raises is of a subclass of Exception.
ExceptException(out) ==
    IF out.kind = "raise"
    THEN Return("Trip ID lookup failed: " \o MessageFrom(out.value, 1))
    ELSE out

\* trip_id_to_trip_od_info
trip_id_to_trip_od_info(binding, clean, table, trip_update_text) ==
    ExceptException(TripOdInfoBody(binding, clean, table, trip_update_text))

\* ------------------------------------------------------------ fixtures

StopNames == {"Union Station", "Oshawa GO"}
StopPoints == {<<0, 0>>, <<0, 60>>, <<60, 0>>}
Embeddings == {<<0, 0>>, <<1, 0>>, <<2, 2>>}

TripIds == {"20180301-LE-907", "20180301-LE-703"}

\* The default arguments of __init__.
DefaultStart == 20180301
DefaultEnd == 20180308

DefaultStops ==
    << [stop_id |-> "S1", stop_name |-> "Union Station", stop_lat |-> 0, stop_lon |-> 0,
        embedding |-> <<1, 0>>],
       [stop_id |-> "S2", stop_name |-> "Oshawa GO", stop_lat |-> 0, stop_lon |-> 60,
        embedding |-> <<2, 2>>] >>

DefaultCalendar == <<20180301, 20180302>>

DefaultTrips ==
    << [trip_id |-> "20180301-LE-907", service_id |-> 20180301, route_id |-> "01180518-LE"],
       [trip_id |-> "20180301-LE-703", service_id |-> 20180301, route_id |-> "01180518-LE"] >>

DefaultStopTimes ==
    << [trip_id |-> "20180301-LE-907", stop_id |-> "S2", stop_sequence |-> 1,
        arrival_time |-> "07:42:00", departure_time |-> "07:42:00",
        stop_headsign |-> "Oshawa GO 07:42 - Union Station 08:45"],
       [trip_id |-> "20180301-LE-907", stop_id |-> "S1", stop_sequence |-> 2,
        arrival_time |-> "08:45:00", departure_time |-> "08:45:00",
        stop_headsign |-> "Oshawa GO 07:42 - Union Station 08:45"],
       [trip_id |-> "20180301-LE-703", stop_id |-> "S1", stop_sequence |-> 1,
        arrival_time |-> "09:10:00", departure_time |-> "09:10:00",
        stop_headsign |-> "Union Station 09:10 - Oshawa GO 10:13"] >>

DefaultL101 ==
    << [TripId |-> "907", OperationDateTime |-> 2018030108, CorridorId |-> "LE",
        DelayCode |-> "TD"],
       [TripId |-> "703", OperationDateTime |-> 2018030209, CorridorId |-> "LE",
        DelayCode |-> "TD"] >>

DefaultL102 == << [TripId |-> "907", Remarks |-> "held at Oshawa GO"] >>

DefaultDelayCodes == << [DelayCode |-> "TD", DelayDescription |-> "Track delay"] >>

DefaultSource ==
    [calendar_dates |-> DefaultCalendar, trips |-> DefaultTrips,
     stop_times |-> DefaultStopTimes, stops |-> DefaultStops,
     l101 |-> DefaultL101, l102 |-> DefaultL102, delay_code_info |-> DefaultDelayCodes,
     start_date |-> DefaultStart, end_date |-> DefaultEnd, corridor |-> "LE"]

\* The k-th stop_id of a generated stop table.
StopIdAt(k) == "S" \o ToString(k)

\* Stop tables of up to MaxStops rows with distinct stop ids.
StopTables ==
    UNION {
        {[i \in 1..k |->
            [stop_id |-> StopIdAt(i), stop_name |-> name[i], stop_lat |-> at[i][1],
             stop_lon |-> at[i][2], embedding |-> emb[i]]] :
         name \in [1..k -> StopNames], at \in [1..k -> StopPoints],
         emb \in [1..k -> Embeddings]} : k \in 0..MaxStops}

\* Stop-time rows: two trips, the stops of DefaultStops and a stop_id no
\* stop has, a headsign cell that may be missing.
StopTimeRows ==
    [trip_id : TripIds, stop_id : {"S1", "S2", "S9"}, stop_sequence : {1, 2},
     arrival_time : {NAN, "08:00:00"}, departure_time : {"08:05:00"},
     stop_headsign : {NAN, "Oshawa GO 07:42 - Union Station 08:45"}]

\* Trip rows: the two trips, a service date inside and one outside the
\* default window, a route of corridor LE and one of corridor LW.
TripRows ==
    [trip_id : TripIds, service_id : {20180301, 20180310},
     route_id : {"01180518-LE", "01180518-LW"}]

\* Delay-log rows of L101: a timestamp of 1 March (at two hours) or of
\* 10 March 2018, a corridor, a delay code that may be missing.
L101Rows ==
    [TripId : {"907"}, OperationDateTime : {2018030109, 2018030108, 2018031008},
     CorridorId : {"LE", "LW"}, DelayCode : {NAN, "TD"}]

\* Contents a model result may have.
Contents ==
    {StrContent(""), StrContent("Hello"), ListContent(<<>>),
     ListContent(<<DictBlock(NONE)>>), ListContent(<<DictBlock("")>>),
     ListContent(<<DictBlock("Hello")>>),
     ListContent(<<DictBlock(NONE), DictBlock("Hello")>>),
     ListContent(<<StrBlock("Hello")>>)}

\* What self.runnable.invoke may return: the model is an external
\* collaborator and any result is possible at every invocation.
ModelResults == [tool_calls : {<<>>, <<"trip_id_to_trip_od_info">>}, content : Contents]

\* The message lists a graph state may hold when the node is entered.
InputMessages ==
    {<<>>, << <<"user", "Is trip 907 late?">> >>,
     << <<"user", "Is trip 907 late?">>, Reprompt >>}

\* Stop-time rows of trip 907 with a headsign that is missing, of the
\* pattern, of the pattern with more spaces and a trailing word, or a bare
\* station name.
HeadsignRows ==
    [trip_id : {"20180301-LE-907"}, stop_id : {"S1"}, stop_sequence : {1, 2},
     arrival_time : {"08:00:00"}, departure_time : {"08:05:00"},
     stop_headsign : {NAN, "Oshawa GO 07:42 - Union Station 08:45",
                      "Oshawa GO  07:42 -  Union Station 08:45 express",
                      "Union Station"}]

\* Service update texts: without digits, naming a trip of the snapshot or
\* one it has not, naming two trips.
UpdateTexts ==
    {"", "Service update: all trains on time", "Trip 907 is cancelled",
     "Trip 865 is delayed 10 min", "Trips 703 and 907 are held"}

\* The arguments given to __init__: a date window and a corridor.
InitWindows == {<<20180301, 20180308>>, <<20180309, 20180315>>}
InitCorridors == {"LE", "LW"}

\* ------------------------------------------------------------- actions

QueryNames == {NONE, "Union Station", "Oshawa GO", "Bloor GO"}
QueryDegrees == {<<>>, <<0>>, <<60>>}
Methods == {NONE, "embedding_search", "geo_search", "fuzzy_search"}

QueryTrips == {"907", "703"}
QueryDates == {"20180301", "20180302"}
QueryCorridors == {"LE", "LW"}
QueryStopIds == {"S1", "S2"}
QueryTimes == {NONE, "07:00:00"}
QueryLatitudes == {-60, 0, 60}
QueryLongitudes == {0, 60, 120, 180, 240, 300}

\* A caller invokes get_stop_id.
Call_get_stop_id ==
    /\ result.op = "idle"
    /\ \E stop_name \in QueryNames, lat \in QueryDegrees, long \in QueryDegrees,
          method \in Methods :
        result' = [op |-> "get_stop_id",
                   args |-> [stop_name |-> stop_name, lat |-> lat, long |-> long,
                             method |-> method],
                   out |-> get_stop_id(stops, stop_name, lat, long, method)]
    /\ UNCHANGED <<source, tables, assistant, go_api_simulator>>

\* A caller invokes get_trip_info.
Call_get_trip_info ==
    /\ result.op = "idle"
    /\ \E trip_id \in QueryTrips, date \in QueryDates, corridor \in QueryCorridors :
        result' = [op |-> "get_trip_info",
                   args |-> [trip_id |-> trip_id, date |-> date, corridor |-> corridor],
                   out |-> get_trip_info(stop_time_clean, stops, trip_id, date, corridor)]
    /\ UNCHANGED <<source, tables, assistant, go_api_simulator>>

\* A caller invokes get_control_log.
Call_get_control_log ==
    /\ result.op = "idle"
    /\ \E out \in get_control_log(delay_logs_clean_df) :
        /\ result' = [op |-> "get_control_log", args |-> <<>>, out |-> out]
        /\ delay_logs_clean_df' = FrameAfterSample(delay_logs_clean_df, out)
    /\ UNCHANGED <<source, stops, stop_time_clean, assistant, go_api_simulator>>

\* A caller invokes get_next_available_trip.
Call_get_next_available_trip ==
    /\ result.op = "idle"
    /\ \E o_stop_id \in QueryStopIds, d_stop_id \in QueryStopIds, time \in QueryTimes :
        result' = [op |-> "get_next_available_trip",
                   args |-> [o_stop_id |-> o_stop_id, d_stop_id |-> d_stop_id, time |-> time],
                   out |-> get_next_available_trip(o_stop_id, d_stop_id, time)]
    /\ UNCHANGED <<source, tables, assistant, go_api_simulator>>

\* A caller invokes get_station_alert.
Call_get_station_alert ==
    /\ result.op = "idle"
    /\ \E stop_id \in QueryStopIds :
        result' = [op |-> "get_station_alert", args |-> [stop_id |-> stop_id],
                   out |-> get_station_alert(stop_id)]
    /\ UNCHANGED <<source, tables, assistant, go_api_simulator>>

\* A caller invokes calculate_distance.
Call_calculate_distance ==
    /\ result.op = "idle"
    /\ \E lat1 \in QueryLatitudes, lon1 \in QueryLongitudes,
          lat2 \in QueryLatitudes, lon2 \in QueryLongitudes :
        result' = [op |-> "calculate_distance",
                   args |-> [lat1 |-> lat1, lon1 |-> lon1, lat2 |-> lat2, lon2 |-> lon2],
                   out |-> Return(calculate_distance(lat1, lon1, lat2, lon2))]
    /\ UNCHANGED <<source, tables, assistant, go_api_simulator>>

\* The agent invokes the tool trip_id_to_trip_od_info.
Call_trip_id_to_trip_od_info ==
    /\ result.op = "idle"
    /\ \E trip_update_text \in UpdateTexts :
        result' = [op |-> "trip_id_to_trip_od_info",
                   args |-> [trip_update_text |-> trip_update_text],
                   out |-> trip_id_to_trip_od_info(go_api_simulator, stop_time_clean, stops,
                                                   trip_update_text)]
    /\ UNCHANGED <<source, tables, assistant, go_api_simulator>>

\* One turn of the while loop of Assistant.__call__: the model is invoked
\* on the working state and its result tested.  On "reprompt" the working
\* message list gets one more message and the loop goes round; on "break"
\* the call returns {"messages": result}; on "raise" the exception of the
\* test leaves the call.  The turns that re-prompt are counted up to
\* MaxReprompts.
Assistant_invoke ==
    /\ assistant.pc = "loop"
    /\ \E r \in ModelResults :
        /\ LoopTest(r) = "reprompt" =>
               Len(assistant.messages) - Len(assistant.input) < MaxReprompts
        /\ assistant' =
               [assistant EXCEPT
                   !.result = r,
                   !.invocations = @ + 1,
                   !.messages = IF LoopTest(r) = "reprompt" THEN Append(@, Reprompt) ELSE @,
                   !.pc = CASE LoopTest(r) = "reprompt" -> "loop"
                            [] LoopTest(r) = "break" -> "returned"
                            [] LoopTest(r) = "raise" -> "raised"]
    /\ UNCHANGED <<source, tables, result, go_api_simulator>>

\* The caller takes the outcome; the object is ready for the next call.
TakeOutcome ==
    /\ result.op # "idle"
    /\ result' = Idle
    /\ UNCHANGED <<source, tables, assistant, go_api_simulator>>

\* ------------------------------------------------------ specifications

\* The stop resolver over every stop table of up to MaxStops rows.
InitResolver ==
    /\ \E table \in StopTables : Constructed([DefaultSource EXCEPT !.stops = table])
    /\ assistant = AssistantAtRest
    /\ go_api_simulator = AsBuilt

NextResolver == Call_get_stop_id \/ TakeOutcome

SpecResolver == InitResolver /\ [][NextResolver]_vars

\* The trip assembler over every stop-time table of up to MaxStopTimes rows.
InitAssembler ==
    /\ \E table \in SeqUpTo(StopTimeRows, MaxStopTimes) :
        Constructed([DefaultSource EXCEPT !.stop_times = table])
    /\ assistant = AssistantAtRest
    /\ go_api_simulator = AsBuilt

NextAssembler == Call_get_trip_info \/ TakeOutcome

SpecAssembler == InitAssembler /\ [][NextAssembler]_vars

\* The data store over every calendar, trip table and filter argument.
InitStore ==
    /\ \E dates \in SeqUpTo({20180301, 20180310}, MaxDates),
          table \in SeqUpTo(TripRows, MaxTrips),
          window \in InitWindows, corridor \in InitCorridors :
        Constructed([DefaultSource EXCEPT !.calendar_dates = dates, !.trips = table,
                                          !.start_date = window[1], !.end_date = window[2],
                                          !.corridor = corridor])
    /\ assistant = AssistantAtRest
    /\ go_api_simulator = AsBuilt

NextStore == Call_get_trip_info \/ TakeOutcome

SpecStore == InitStore /\ [][NextStore]_vars

\* The delay-log snapshot over every L101 table of up to MaxLogs rows and
\* every filter argument.
InitDelay ==
    /\ \E table \in SeqUpTo(L101Rows, MaxLogs),
          window \in InitWindows, corridor \in InitCorridors :
        Constructed([DefaultSource EXCEPT !.l101 = table,
                                          !.start_date = window[1], !.end_date = window[2],
                                          !.corridor = corridor])
    /\ assistant = AssistantAtRest
    /\ go_api_simulator = AsBuilt

NextDelay == Call_get_control_log \/ TakeOutcome

SpecDelay == InitDelay /\ [][NextDelay]_vars

\* The object under every sequence of calls of its five public methods,
\* over every L101 table of up to MaxLogs rows of corridor LE.
Init ==
    /\ \E table \in SeqUpTo({row \in L101Rows : row.CorridorId = "LE"}, MaxLogs) :
        Constructed([DefaultSource EXCEPT !.l101 = table])
    /\ assistant = AssistantAtRest
    /\ go_api_simulator = AsBuilt

Next ==
    \/ Call_get_stop_id
    \/ Call_get_trip_info
    \/ Call_get_control_log
    \/ Call_get_next_available_trip
    \/ Call_get_station_alert
    \/ TakeOutcome

Spec == Init /\ [][Next]_vars

\* calculate_distance over every pair of grid points.
InitDistance ==
    /\ Constructed(DefaultSource)
    /\ assistant = AssistantAtRest
    /\ go_api_simulator = AsBuilt

NextDistance == Call_calculate_distance \/ TakeOutcome

SpecDistance == InitDistance /\ [][NextDistance]_vars

\* One call of Assistant.__call__ against a model free to return anything.
InitAssistant ==
    /\ Constructed(DefaultSource)
    /\ \E input \in InputMessages : assistant = AssistantCalled(input)
    /\ go_api_simulator = AsBuilt

NextAssistant == Assistant_invoke

SpecAssistant == InitAssistant /\ [][NextAssistant]_vars

\* The tool over every stop-time table of up to MaxStopTimes rows of trip
\* 907 and both classes the tools module may bind.
InitTools ==
    /\ \E table \in SeqUpTo(HeadsignRows, MaxStopTimes) :
        Constructed([DefaultSource EXCEPT !.stop_times = table])
    /\ assistant = AssistantAtRest
    /\ go_api_simulator \in Bindings

NextTools == Call_trip_id_to_trip_od_info \/ TakeOutcome

SpecTools == InitTools /\ [][NextTools]_vars

\* ------------------------------------------------- claims: stop resolver

StopIdSet == {stops[i].stop_id : i \in 1..Len(stops)}

\* The last call was a geo search given both coordinates.
GeoCall ==
    /\ result.op = "get_stop_id"
    /\ result.args.method = "geo_search"
    /\ result.args.lat # <<>>
    /\ result.args.long # <<>>

\* The distance from the query point of the last call to stop i.
QueryDistance(i) ==
    calculate_distance(result.args.lat[1], result.args.long[1],
                       stops[i].stop_lat, stops[i].stop_lon)

\* C1: on a non-empty stop table a geo search returns the stop_id of a stop
\* at least as near to the query point as every stop of the table, and of
\* the stops at that least distance the first in table order.
C1_GeoSearchNearestFirst ==
    (GeoCall /\ Len(stops) > 0) =>
        /\ result.out.kind = "return"
        /\ \E i \in 1..Len(stops) :
            /\ result.out.value = stops[i].stop_id
            /\ \A j \in 1..Len(stops) : QueryDistance(i) <= QueryDistance(j)
            /\ \A j \in 1..(i - 1) : QueryDistance(j) # QueryDistance(i)

\* A geo search answered with the first of two stops at the same least distance.
C1_Witness ==
    /\ GeoCall
    /\ result.out.kind = "return"
    /\ \E i, k \in 1..Len(stops) :
        /\ i < k
        /\ result.out.value = stops[i].stop_id
        /\ QueryDistance(i) = QueryDistance(k)
        /\ <<stops[i].stop_lat, stops[i].stop_lon>> # <<stops[k].stop_lat, stops[k].stop_lon>>
        /\ \A j \in 1..Len(stops) : QueryDistance(i) <= QueryDistance(j)

\* The last call was an embedding search given a query text.
EmbeddingCall ==
    /\ result.op = "get_stop_id"
    /\ result.args.method = "embedding_search"
    /\ result.args.stop_name # NONE

\* The cosine similarity of the query text of the last call to stop i.
QuerySimilarity(i) ==
    calculate_cosine_similarity(encode(result.args.stop_name), stops[i].embedding)

\* C2: on a non-empty stop table an embedding search returns the stop_id of
\* a stop at least as similar to the query embedding as every stop of the
\* table, and of the stops at that greatest similarity the one of lowest index.
C2_EmbeddingSearchMostSimilarFirst ==
    (EmbeddingCall /\ Len(stops) > 0) =>
        /\ result.out.kind = "return"
        /\ \E i \in 1..Len(stops) :
            /\ result.out.value = stops[i].stop_id
            /\ \A j \in 1..Len(stops) : QuerySimilarity(i) >= QuerySimilarity(j)
            /\ \A j \in 1..(i - 1) : QuerySimilarity(j) # QuerySimilarity(i)

\* An embedding search answered with the first of two stops of the same
\* greatest similarity, above that of a third kind of embedding.
C2_Witness ==
    /\ EmbeddingCall
    /\ result.out.kind = "return"
    /\ \E i, k \in 1..Len(stops) :
        /\ i < k
        /\ result.out.value = stops[i].stop_id
        /\ QuerySimilarity(i) = QuerySimilarity(k)
        /\ QuerySimilarity(i) > 0
        /\ \A j \in 1..Len(stops) : QuerySimilarity(i) >= QuerySimilarity(j)

\* The last call was a lookup by exact name (method=None).
NameCall == result.op = "get_stop_id" /\ result.args.method = NONE

\* Stop i bears the name asked for in the last call.
NameMatches(i) == stops[i].stop_name = result.args.stop_name

\* C8: a lookup by name returns the stop_id of the first stop, in table
\* order, whose name equals the given name, and fails with the
\* stop-not-found error exactly when no stop bears the name.
C8_ExactNameFirstMatch ==
    NameCall =>
        IF \E i \in 1..Len(stops) : NameMatches(i)
        THEN /\ result.out.kind = "return"
             /\ \E i \in 1..Len(stops) :
                 /\ NameMatches(i)
                 /\ \A j \in 1..(i - 1) : ~NameMatches(j)
                 /\ result.out.value = stops[i].stop_id
        ELSE result.out = Raise("ValueError: Stop not found")

\* A lookup by a name two stops share, answered with the first of them.
C8_Witness ==
    /\ NameCall
    /\ \E i, k \in 1..Len(stops) :
        /\ i < k
        /\ NameMatches(i)
        /\ NameMatches(k)
        /\ \A j \in 1..(i - 1) : ~NameMatches(j)
        /\ result.out = Return(stops[i].stop_id)

\* C9: every call of get_stop_id either returns a stop_id of the stop table
\* or fails with an error; it never hands None back to its caller.
C9_ReturnsStopIdOrFails ==
    result.op = "get_stop_id" =>
        \/ result.out.kind = "raise"
        \/ result.out.value \in StopIdSet

\* ------------------------------------------------ claims: trip assembler

\* The last call was get_trip_info.
TripCall == result.op = "get_trip_info"

\* The composite key the last call asked for.
AskedKey == result.args.date \o "-" \o result.args.corridor \o "-" \o result.args.trip_id

\* The positions of the snapshot's rows of the trip asked for.
AskedRows == {i \in 1..Len(stop_time_clean) : stop_time_clean[i].trip_id = AskedKey}

\* The positions among them whose stop the stop table knows.
KnownRows == {i \in AskedRows : stop_time_clean[i].stop_id \in StopIdSet}

\* The name of the stop of id sid (stop ids are distinct in these tables).
NameOfStop(sid) == (CHOOSE s \in {stops[k] : k \in 1..Len(stops)} : s.stop_id = sid).stop_name

\* The last call returned a trip.
TripReturned == TripCall /\ result.out.kind = "return"

\* C3: the origin get_trip_info returns is the stop name of a row of least
\* stop_sequence of the trip and the destination that of a row of greatest
\* stop_sequence, whatever the order of the trip's rows in the table.
C3_OriginDestinationBySequence ==
    TripReturned =>
        /\ \E i \in KnownRows :
            /\ \A j \in KnownRows :
                stop_time_clean[i].stop_sequence <= stop_time_clean[j].stop_sequence
            /\ result.out.value.origin = NameOfStop(stop_time_clean[i].stop_id)
        /\ \E i \in KnownRows :
            /\ \A j \in KnownRows :
                stop_time_clean[i].stop_sequence >= stop_time_clean[j].stop_sequence
            /\ result.out.value.destination = NameOfStop(stop_time_clean[i].stop_id)

\* C4: the stop_sequence list of a returned trip is strictly ascending in
\* stop_sequence number, so no number appears twice.
C4_StopSequenceStrictlyAscending ==
    TripReturned =>
        \A i \in 1..(Len(result.out.value.stop_sequence) - 1) :
            result.out.value.stop_sequence[i].stop_sequence
                < result.out.value.stop_sequence[i + 1].stop_sequence

\* A trip returned from two joined rows that are not in ascending order of
\* stop_sequence: the second repeats or precedes the first.
C4_Witness ==
    /\ TripReturned
    /\ \E i, j \in KnownRows :
        /\ i < j
        /\ stop_time_clean[i].stop_sequence >= stop_time_clean[j].stop_sequence
    /\ Len(result.out.value.stop_sequence) >= 1

\* C5: when a stop-time row of the requested trip names a stop_id that the
\* stop table lacks, get_trip_info fails; it returns no trip built from
\* the other rows.
C5_UnknownStopIsAnError ==
    (TripCall /\ AskedRows # KnownRows) => result.out.kind = "raise"

\* C6: when the snapshot has no row of the composite key, or none whose
\* stop the stop table knows, get_trip_info fails with the trip-not-found
\* error; and no returned trip has an empty stop sequence.
C6_NoRowsIsTripNotFound ==
    /\ (TripCall /\ KnownRows = {}) => result.out = Raise("ValueError: Trip ID not found")
    /\ TripReturned => Len(result.out.value.stop_sequence) > 0

\* A call for a trip of which a snapshot holding other rows has none,
\* answered with the trip-not-found error.
C6_Witness ==
    /\ TripCall
    /\ Len(stop_time_clean) > 0
    /\ AskedRows = {}
    /\ result.out = Raise("ValueError: Trip ID not found")

\* The first row, in table order, of least stop_sequence of the trip asked for.
FirstMinRow ==
    CHOOSE i \in KnownRows :
        /\ \A j \in KnownRows :
            stop_time_clean[i].stop_sequence <= stop_time_clean[j].stop_sequence
        /\ \A j \in KnownRows :
            stop_time_clean[j].stop_sequence = stop_time_clean[i].stop_sequence => i <= j

\* C7: a returned trip's stop_headsign is the headsign of the row of least
\* stop_sequence, and a trip whose row of least stop_sequence has no
\* headsign is not returned: the call fails.
C7_HeadsignOfMinRowOrError ==
    (TripCall /\ KnownRows # {}) =>
        IF stop_time_clean[FirstMinRow].stop_headsign = NAN
        THEN result.out.kind = "raise"
        ELSE /\ result.out.kind = "return"
             /\ result.out.value.stop_headsign = stop_time_clean[FirstMinRow].stop_headsign

\* The stop_id a lookup by exact name hands back for the name of stop k.
ResolvedId(k) == get_stop_id(stops, stops[k].stop_name, <<>>, <<>>, NONE)

\* The entries of the stop sequence of the last call's trip.
Entries == result.out.value.stop_sequence

\* Row i is the first of the trip's joined rows with its stop_sequence number.
FirstOfItsNumber(i) ==
    \A j \in KnownRows :
        stop_time_clean[j].stop_sequence = stop_time_clean[i].stop_sequence => i <= j

\* C16 as stated: for every stop S of the stop table, a trip of the
\* snapshot with a stop-time row for the stop_id that get_stop_id hands
\* back for S.stop_name is returned with an entry whose stop_name is
\* S.stop_name.
C16_RoundTripListsStopName ==
    TripCall =>
        \A k \in 1..Len(stops) :
            (/\ ResolvedId(k).kind = "return"
             /\ \E i \in AskedRows : stop_time_clean[i].stop_id = ResolvedId(k).value)
            => /\ result.out.kind = "return"
               /\ \E e \in 1..Len(Entries) : Entries[e].stop_name = stops[k].stop_name

\* C16, amended: for every stop S of the stop table, a trip of the snapshot
\* with a stop-time row for the stop_id that get_stop_id hands back for
\* S.stop_name, that row being the first of the trip's joined rows with its
\* stop_sequence number, is returned with an entry of that stop_sequence
\* number whose stop_name is S.stop_name.
C16_RoundTripListsFirstOfNumber ==
    TripCall =>
        \A k \in 1..Len(stops) : \A i \in AskedRows :
            (/\ ResolvedId(k).kind = "return"
             /\ stop_time_clean[i].stop_id = ResolvedId(k).value
             /\ FirstOfItsNumber(i))
            => /\ result.out.kind = "return"
               /\ \E e \in 1..Len(Entries) :
                   /\ Entries[e].stop_sequence = stop_time_clean[i].stop_sequence
                   /\ Entries[e].stop_name = stops[k].stop_name

\* A trip returned from two rows of the same stop_sequence number and of
\* different stops, listing the name of the first row's stop.
C16_Witness ==
    /\ TripReturned
    /\ \E i, j \in KnownRows :
        /\ i < j
        /\ stop_time_clean[i].stop_sequence = stop_time_clean[j].stop_sequence
        /\ stop_time_clean[i].stop_id # stop_time_clean[j].stop_id
        /\ Len(Entries) = 1
        /\ Entries[1].stop_name = NameOfStop(stop_time_clean[i].stop_id)
        /\ ResolvedId(1).kind = "return"

\* The first, in table order, of the trip's joined rows of stop_sequence seq.
FirstRowOfNumber(seq) ==
    CHOOSE i \in KnownRows :
        /\ stop_time_clean[i].stop_sequence = seq
        /\ FirstOfItsNumber(i)

\* C19: every entry of a returned stop sequence takes its stop_name, its
\* arrival_time and its departure_time from one row, the first joined row
\* of its stop_sequence number, also when that row lacks one of them.
C19_EntryFromFirstRowOfNumber ==
    TripReturned =>
        \A e \in 1..Len(Entries) :
            LET first == stop_time_clean[FirstRowOfNumber(Entries[e].stop_sequence)]
            IN  /\ Entries[e].stop_name = NameOfStop(first.stop_id)
                /\ Entries[e].arrival_time = first.arrival_time
                /\ Entries[e].departure_time = first.departure_time

\* ------------------------------------------- claims: numeric utilities

\* C17: an embedding search with a zero query vector, or over a stop table
\* that holds a zero embedding vector, fails with an error: no stop is
\* returned from a similarity score computed on a zero vector.
C17_ZeroVectorIsAnError ==
    (/\ EmbeddingCall
     /\ \/ encode(result.args.stop_name) = <<0, 0>>
        \/ \E i \in 1..Len(stops) : stops[i].embedding = <<0, 0>>)
    => result.out.kind = "raise"

\* The last call was calculate_distance.
DistanceCall == result.op = "calculate_distance"

\* C18: calculate_distance is symmetric, distance(a, b) = distance(b, a),
\* and distance(a, a) = 0.
C18_DistanceSymmetricZeroOnSelf ==
    DistanceCall =>
        /\ result.out.value =
               calculate_distance(result.args.lat2, result.args.lon2,
                                  result.args.lat1, result.args.lon1)
        /\ (result.args.lat1 = result.args.lat2 /\ result.args.lon1 = result.args.lon2)
               => result.out.value = 0

\* A distance above zero between two points of different latitude and
\* longitude.
C18_Witness ==
    /\ DistanceCall
    /\ result.args.lat1 # result.args.lat2
    /\ result.args.lon1 # result.args.lon2
    /\ result.out.value > 0

\* ---------------------------------------------------- claims: assistant

\* A model result with tool calls or a content that is not empty.
NonEmptyResult(r) == Len(r.tool_calls) > 0 \/ Truthy(r.content)

\* The call has invoked the model at least once.
Invoked == assistant.invocations > 0

\* The working message list is the input with n re-prompts after it.
InputPlusReprompts(n) ==
    assistant.messages = assistant.input \o [i \in 1..n |-> Reprompt]

\* C20 as stated: the call returns only a result with tool calls or
\* non-empty content; after every result with no tool calls and empty
\* content the working list has exactly one more re-prompt and the model is
\* invoked again; and the call returns as soon as the model returns a
\* non-empty result.
C20_ReturnsOnFirstNonEmptyResult ==
    Invoked =>
        /\ assistant.pc = "returned" <=> NonEmptyResult(assistant.result)
        /\ ~NonEmptyResult(assistant.result) =>
               assistant.pc = "loop" /\ InputPlusReprompts(assistant.invocations)
        /\ NonEmptyResult(assistant.result) => InputPlusReprompts(assistant.invocations - 1)

\* A model result the loop accepts: one with tool calls, or whose content
\* is a non-empty string, or a list whose first block is a dict with a
\* non-empty text.
RealOutput(r) ==
    \/ Len(r.tool_calls) > 0
    \/ r.content.type = "str" /\ r.content.text # ""
    \/ /\ r.content.type = "list"
       /\ Len(r.content.blocks) > 0
       /\ r.content.blocks[1].type = "dict"
       /\ r.content.blocks[1].text \notin {NONE, ""}

\* A model result on which the test of the loop fails: no tool calls and a
\* list content whose first element is a plain string.
Untestable(r) ==
    /\ Len(r.tool_calls) = 0
    /\ r.content.type = "list"
    /\ Len(r.content.blocks) > 0
    /\ r.content.blocks[1].type = "str"

\* C20, amended: the call returns only, and as soon as, the model returns
\* a result with tool calls, or with a non-empty string content, or with a
\* list content whose first block is a dict with a non-empty text; it
\* raises on a result with no tool calls whose list content starts with a
\* plain string; after every other result (no tool calls and an empty
\* content, or a list whose first block is a dict without text, whatever
\* follows it) the working list has exactly one more re-prompt and the
\* model is invoked again.
C20_ReturnsOnFirstRealOutput ==
    Invoked =>
        /\ assistant.pc = "returned" <=> RealOutput(assistant.result)
        /\ assistant.pc = "raised" <=> Untestable(assistant.result)
        /\ assistant.pc = "loop" => InputPlusReprompts(assistant.invocations)
        /\ assistant.pc # "loop" => InputPlusReprompts(assistant.invocations - 1)

\* The call returned, at the third invocation and after two re-prompts
\* appended to a non-empty input, a result with tool calls and no content.
C20_Witness ==
    /\ assistant.pc = "returned"
    /\ assistant.invocations = 3
    /\ Len(assistant.result.tool_calls) > 0
    /\ ~Truthy(assistant.result.content)
    /\ InputPlusReprompts(2)
    /\ Len(assistant.input) > 0

\* --------------------------------------------------- claims: data store

\* C10: a store initialized with a corridor and date window that no trip
\* passes is not usable: no get_trip_info call on it is ever answered,
\* with trip-not-found or otherwise.
C10_EmptyFilterRejectedAtInit ==
    ValidTripIds(source) = {} => ~TripCall

\* The trips of the trip table that the given test passes.
TripsPassing(Test(_)) == {source.trips[k] : k \in {j \in 1..Len(source.trips) : Test(source.trips[j])}}

\* The rows of the snapshot, as a set.
SnapshotRows == {stop_time_clean[i] : i \in 1..Len(stop_time_clean)}

\* The service_id of trip t lies within [start_date, end_date] and its
\* route_id ends with the corridor string.
InWindowAndCorridor(t) ==
    /\ t.service_id >= source.start_date
    /\ t.service_id <= source.end_date
    /\ EndsWith(t.route_id, source.corridor)

\* The service_id of trip t is one of the calendar table.
ListedService(t) ==
    \E k \in 1..Len(source.calendar_dates) : source.calendar_dates[k] = t.service_id

\* C11 as stated: a stop-time row is in the snapshot if and only if its
\* trip_id is that of a trip whose service_id lies within the window and
\* whose route_id ends with the corridor.
C11_SnapshotIffTripInWindow ==
    \A i \in 1..Len(source.stop_times) :
        source.stop_times[i] \in SnapshotRows <=>
            \E t \in TripsPassing(InWindowAndCorridor) : t.trip_id = source.stop_times[i].trip_id

\* C11, amended: a stop-time row is in the snapshot if and only if its
\* trip_id is that of a trip whose service_id lies within the window, is a
\* service_id of the calendar table, and whose route_id ends with the
\* corridor; and the snapshot holds nothing but stop-time rows.
C11_SnapshotIffTripOfListedService ==
    /\ \A i \in 1..Len(source.stop_times) :
        source.stop_times[i] \in SnapshotRows <=>
            \E t \in TripsPassing(LAMBDA t : InWindowAndCorridor(t) /\ ListedService(t)) :
                t.trip_id = source.stop_times[i].trip_id
    /\ SnapshotRows \subseteq {source.stop_times[i] : i \in 1..Len(source.stop_times)}

\* A store that left out the rows of a trip whose service_id is within the
\* window and whose route is of the corridor, but whose service_id the
\* calendar table, which lists another, does not list.
C11_Witness ==
    /\ Len(source.calendar_dates) > 0
    /\ \E i \in 1..Len(source.stop_times) :
        /\ source.stop_times[i] \notin SnapshotRows
        /\ \E t \in TripsPassing(InWindowAndCorridor) :
            /\ t.trip_id = source.stop_times[i].trip_id
            /\ ~ListedService(t)

\* --------------------------------------------------- claims: delay logs

\* The delay logs as merge_data hands them to the filter.
MergedLogs == merge_data(source.l101, source.l102, source.delay_code_info)

\* Row passes the date window and the corridor given to __init__.
InInitWindow(row) ==
    /\ DateOf(row.OperationDateTime) >= source.start_date
    /\ DateOf(row.OperationDateTime) <= source.end_date
    /\ row.CorridorId = source.corridor

SnapshotLogs == {delay_logs_clean_df[i] : i \in 1..Len(delay_logs_clean_df)}

\* C12: the delay-log snapshot holds the delay logs with a delay code that
\* lie within the date window [start_date, end_date] and the corridor given
\* to __init__, and no others, for every choice of those arguments.
C12_DelayLogsInInitWindow ==
    \A i \in 1..Len(MergedLogs) :
        MergedLogs[i].DelayCode # NAN =>
            (MergedLogs[i] \in SnapshotLogs <=> InInitWindow(MergedLogs[i]))

\* C13: no record of the delay-log snapshot has a null delay code, and the
\* records are in ascending order of OperationDateTime.
C13_NoNullCodeAscending ==
    /\ \A i \in 1..Len(delay_logs_clean_df) : delay_logs_clean_df[i].DelayCode # NAN
    /\ \A i \in 1..(Len(delay_logs_clean_df) - 1) :
        delay_logs_clean_df[i].OperationDateTime <= delay_logs_clean_df[i + 1].OperationDateTime

\* A snapshot of two records built from a table that held them in
\* descending order of time, along with a record of the same corridor and
\* day without a delay code.
C13_Witness ==
    /\ Len(delay_logs_clean_df) = 2
    /\ delay_logs_clean_df[1].OperationDateTime < delay_logs_clean_df[2].OperationDateTime
    /\ \E i, j, k \in 1..Len(source.l101) :
        /\ i < j
        /\ source.l101[i].OperationDateTime = delay_logs_clean_df[2].OperationDateTime
        /\ source.l101[j].OperationDateTime = delay_logs_clean_df[1].OperationDateTime
        /\ source.l101[k].DelayCode = NAN
        /\ source.l101[k].CorridorId = source.corridor
        /\ DateOf(source.l101[k].OperationDateTime) = DelayWindowStart

\* The last call was get_control_log.
LogCall == result.op = "get_control_log"

\* C14: get_control_log returns one of the records of the snapshot when the
\* snapshot has records, and fails with an error, returning nothing, when
\* it has none.
C14_ControlLogFromSnapshotOrError ==
    LogCall =>
        IF Len(delay_logs_clean_df) > 0
        THEN result.out.kind = "return" /\ result.out.value \in SnapshotLogs
        ELSE result.out.kind = "raise"

\* get_control_log failed on a snapshot left empty by the filter of a
\* table that has rows.
C14_Witness ==
    /\ LogCall
    /\ Len(source.l101) > 0
    /\ Len(delay_logs_clean_df) = 0
    /\ result.out.kind = "raise"

\* C15: no call of get_stop_id, get_trip_info, get_control_log,
\* get_next_available_trip or get_station_alert, returning or raising,
\* changes the stop table, the stop-time snapshot or the delay-log snapshot.
C15_CallsLeaveTablesUnchanged ==
    [][/\ stops' = stops
       /\ stop_time_clean' = stop_time_clean
       /\ delay_logs_clean_df' = delay_logs_clean_df]_vars

\* get_control_log has returned a record of a snapshot of several records,
\* and the three tables are those __init__ built.
C15_Witness ==
    /\ LogCall
    /\ result.out.kind = "return"
    /\ Len(delay_logs_clean_df) > 1
    /\ stops = source.stops
    /\ stop_time_clean = StopTimeClean(source)
    /\ delay_logs_clean_df \in DelayLogsClean(source)

\* -------------------------------------------------------- claims: tools

\* The last call was of the tool trip_id_to_trip_od_info.
ToolCall == result.op = "trip_id_to_trip_od_info"

\* The trip number the tool reads in the text of the last call.
ToolTripId == FirstDigits(result.args.trip_update_text)

\* What get_trip_info answers for that trip number.
ToolLookup == get_trip_info(stop_time_clean, stops, ToolTripId.value, "20180301", "LE")

\* The lookup of the last call succeeded: the text held a trip number, the
\* object bound has get_trip_info, and it returned a trip.
LookupSucceeded ==
    /\ ToolTripId.kind = "return"
    /\ go_api_simulator = "GoAPISimulator"
    /\ ToolLookup.kind = "return"

\* The headsign of the trip looked up is a string of the pattern
\* 'origin HH:MM - destination HH:MM'.
HeadsignFits ==
    /\ ToolLookup.value.stop_headsign # NAN
    /\ HeadsignMatches(ToolLookup.value.stop_headsign) # {}

\* One of the two error messages of the tool.
IsErrorMessage(v) ==
    \/ v = "Unable to parse trip origin-destination from headsign text."
    \/ Len(v) >= 23 /\ SubSeq(v, 1, 23) = "Trip ID lookup failed: "

\* C21: trip_id_to_trip_od_info passes no exception to its caller: for
\* every text it returns a string, the formatted origin and destination of
\* the headsign when the lookup succeeded and the headsign is of the
\* pattern, and an error message in every other case.
C21_ToolReturnsInfoOrErrorMessage ==
    ToolCall =>
        /\ result.out.kind = "return"
        /\ result.out.value \in STRING
        /\ IF LookupSucceeded /\ HeadsignFits
           THEN /\ ~IsErrorMessage(result.out.value)
                /\ \E m \in HeadsignMatches(ToolLookup.value.stop_headsign) :
                    result.out.value = FormatGroups(ToolLookup.value.stop_headsign, m)
           ELSE IsErrorMessage(result.out.value)

\* The tool answered with the lookup-failed message when get_trip_info
\* returned a trip whose headsign is missing, on which re.match raises.
C21_Witness ==
    /\ ToolCall
    /\ LookupSucceeded
    /\ ToolLookup.value.stop_headsign = NAN
    /\ result.out =
           Return("Trip ID lookup failed: expected string or bytes-like object")

=============================================================================
